---- MODULE Spec2Model ----
(***************************************************************************)
(* Model of app.py (SolarTrackerApp): one pass of the script from the      *)
(* reading of the two Excel files to the autonomy table.                   *)
(*                                                                         *)
(* Fixed-point units (every quantity of the script is a float; the model   *)
(* keeps it exact on a grid):                                              *)
(*   panel_kw, lista_pv_kw          tenths of a kW  (the widget's step)    *)
(*   energia_1kw_kwh                whole kWh                              *)
(*   energia_kwh, consumo, demanda,                                        *)
(*   balance_kwh                    tenths of a kWh                        *)
(*   eta_fv .. eta_bat              percent         (the widgets' step)    *)
(*   eta_global                     1e-8            (product of 4 percent) *)
(*   every *_Wh quantity, soc       Wh                                     *)
(*   DoD_pct, soc_init_pct          percent                                *)
(* The values are finite numbers: NaN cells and float rounding are not     *)
(* modelled.                                                               *)
(***************************************************************************)
EXTENDS Integers, Sequences, FiniteSets, TLC

VARIABLES pc,                    \* position of the script
          bound,                 \* names the script has assigned so far
          st_error,              \* messages shown with st.error
          df_generacion,         \* rows of energia_generada.xlsx as read
          consumo_total_kWh,
          df_gen,                \* rows after ingestion
          panel_kw,
          energia_kwh,           \* column df_gen["energia_kwh"]
          eta_global,
          demanda_kwh,
          balance_Wh,            \* column df["balance_Wh"]
          E_max_Wh, E_min_Wh, DoD_pct, SoC0_Wh,
          soc, soc_list,
          bateria_por_debajo_min,
          dias_sin_bateria,
          rows                   \* rows of the autonomy table

vars == <<pc, bound, st_error, df_generacion, consumo_total_kWh, df_gen,
          panel_kw, energia_kwh, eta_global, demanda_kwh, balance_Wh,
          E_max_Wh, E_min_Wh, DoD_pct, SoC0_Wh, soc, soc_list,
          bateria_por_debajo_min, dias_sin_bateria, rows>>

(***************************************************************************)
(* Bounds of the model and the inputs the specifications draw from.        *)
(***************************************************************************)
MaxRows == 2
MaxEnergia == 1

\* the missing date pd.to_datetime(errors="coerce") gives an unparsable cell
NaT == 0

EnergiaInputs == -1 .. MaxEnergia

\* files whose dates are the days 1..n in order, every cell parsable
CleanRows(es) == [i \in 1..Len(es) |-> [fecha |-> i, energia |-> es[i]]]

CleanFiles ==
    { CleanRows(es) : es \in UNION { [1..n -> EnergiaInputs] : n \in 0..MaxRows } }

\* files with unparsable, repeated and unordered date cells
DirtyFiles ==
    UNION { [1..n -> [fecha : 0..2, energia : 0..1]] : n \in 0..MaxRows }

\* the four-day files of the SoC scenario
ScenarioFiles ==
    { CleanRows(es) : es \in [1..4 -> 0..1] }

ConsumoInputs == {5}
PanelInputs == {5, 7}
EtaInputs == {0, 50, 100}
VBatInputs == {10, 12}
CBatInputs == {50}
DoDInputs == {0, 50, 100}
SocInitInputs == {0, 50, 100}

(***************************************************************************)
(* Helpers of the language and the libraries.                              *)
(***************************************************************************)
\* Python's min(a, b) and max(a, b): the first argument unless the second beats it
PyMin(a, b) == IF b < a THEN b ELSE a

PyMax(a, b) == IF b > a THEN b ELSE a

\* pd.to_datetime(..., errors="coerce") on one cell: a day number or NaT
ToDatetime(cell) == IF cell >= 1 THEN cell ELSE NaT

\* dropna(subset=["fecha"])
DropNa(df) == SelectSeq(df, LAMBDA r : r.fecha # NaT)

IsSortedByFecha(df) ==
    \A i \in 1..(Len(df) - 1) : df[i].fecha <= df[i + 1].fecha

\* sort_values("fecha"): the default quicksort is not stable, so every
\* ordering of the rows that is ascending in fecha is a possible result
SortValues(df) ==
    { [i \in 1..Len(df) |-> df[p[i]]] :
        p \in { q \in [1..Len(df) -> 1..Len(df)] :
                  /\ \A i, j \in 1..Len(df) : i # j => q[i] # q[j]
                  /\ IsSortedByFecha([i \in 1..Len(df) |-> df[q[i]]]) } }

RECURSIVE SumTrue(_)
SumTrue(flags) ==
    IF flags = <<>> THEN 0
    ELSE (IF flags[1] THEN 1 ELSE 0) + SumTrue(Tail(flags))

(***************************************************************************)
(* The script's own computations.                                          *)
(***************************************************************************)
\* line 105
Ingest(raw) ==
    SortValues(DropNa([i \in 1..Len(raw) |->
                  [fecha |-> ToDatetime(raw[i].fecha),
                   energia_1kw_kwh |-> raw[i].energia]]))

\* line 174
EtaNonPositiveMut(eta) == eta < 0
EtaNonPositive(eta) == eta <= 0

\* numpy's float division by zero gives inf (a warning, no exception):
\* a demand larger than any energy of the model
Inf == 1000000

\* line 179: consumo (tenths of kWh) / eta_global (1e-8)
Demanda(consumo, eta) ==
    IF eta = 0 THEN Inf ELSE (consumo * 100000000) \div eta

\* lines 194-195: balance_kwh (tenths of kWh), then * 1000.0 to Wh
BalanceWhMut(energia, demanda) == (demanda - energia) * 100
BalanceWh(energia, demanda) == (energia - demanda) * 100

\* line 223 and line 376
EMinMut(emax, dod) == (emax * dod) \div 100
EMin(emax, dod) == (emax * (100 - dod)) \div 100

\* line 236
SoC0(emax, pct) == (emax * pct) \div 100

\* lines 249-252
ClampSocMut(s, emax) == IF s > emax THEN emax ELSE s
ClampSoc(s, emax) ==
    LET t == IF s > emax THEN emax ELSE s
    IN  IF t < 0 THEN 0 ELSE t

\* line 257
BelowMinMut(s, emin) == s <= emin
BelowMin(s, emin) == s < emin

\* lines 353-362
lista_bat_Wh == <<600, 1200, 1800, 2400, 3000>>
lista_pv_kw == <<4, 5, 6, 8, 10>>
etiquetas_pv ==
    [p \in {4, 5, 6, 8, 10} |->
        CASE p = 4 -> "2 x 200W" [] p = 5 -> "2 x 250W" [] p = 6 -> "2 x 300W"
          [] p = 8 -> "2 x 400W" [] OTHER -> "2 x 500W"]

\* line 377
SimSoc0Mut(bat_Wh) == soc
SimSoc0(bat_Wh) == bat_Wh

\* lines 386-387
SimClampMut(s, emax) == PyMax(s, 0)
SimClamp(s, emax) == PyMax(PyMin(s, emax), 0)

\* line 389
SimBelowMinMut(s, emin) == s <= emin
SimBelowMin(s, emin) == s < emin

\* lines 380-390: the loop of sim_dias_sin from day i on; trace collects the
\* value of soc at the end of every iteration
RECURSIVE SimLoop(_, _, _, _, _, _, _)
SimLoop(i, s, dias_sin, trace, pkw, emax, emin) ==
    IF i > Len(df_gen) THEN [soc |-> s, dias_sin |-> dias_sin, trace |-> trace]
    ELSE LET e  == df_gen[i].energia_1kw_kwh * pkw
             s2 == SimClamp(s + BalanceWh(e, demanda_kwh), emax)
         IN  SimLoop(i + 1, s2,
                     IF SimBelowMin(s2, emin) THEN dias_sin + 1 ELSE dias_sin,
                     Append(trace, s2), pkw, emax, emin)

\* lines 374-392
SimRun(pkw, bat_Wh) ==
    SimLoop(1, SimSoc0(bat_Wh), 0, <<>>, pkw, bat_Wh, EMin(bat_Wh, DoD_pct))

sim_dias_sin(pkw, bat_Wh) == SimRun(pkw, bat_Wh).dias_sin

\* the cell the nested loops of lines 396-397 reach after k cells
CellBat(k) == lista_bat_Wh[(k \div Len(lista_pv_kw)) + 1]
CellPv(k) == lista_pv_kw[(k % Len(lista_pv_kw)) + 1]
NCells == Len(lista_bat_Wh) * Len(lista_pv_kw)

(***************************************************************************)
(* The script, statement by statement.                                     *)
(***************************************************************************)
Init ==
    /\ pc = "read"
    /\ bound = {}
    /\ st_error = <<>>
    /\ df_generacion = <<>>
    /\ consumo_total_kWh = 0
    /\ df_gen = <<>>
    /\ panel_kw = 0
    /\ energia_kwh = <<>>
    /\ eta_global = 0
    /\ demanda_kwh = 0
    /\ balance_Wh = <<>>
    /\ E_max_Wh = 0 /\ E_min_Wh = 0 /\ DoD_pct = 0 /\ SoC0_Wh = 0
    /\ soc = 0 /\ soc_list = <<>>
    /\ bateria_por_debajo_min = <<>>
    /\ dias_sin_bateria = 0
    /\ rows = <<>>

\* lines 39-73: the two files are read, the consumption summed
ReadExcel(files) ==
    /\ pc = "read"
    /\ \E raw \in files, c \in ConsumoInputs :
          /\ df_generacion' = raw
          /\ consumo_total_kWh' = c
    /\ bound' = bound \cup {"df_generacion", "consumo_total_kWh"}
    /\ pc' = "ingest"
    /\ UNCHANGED <<st_error, df_gen, panel_kw, energia_kwh, eta_global,
                   demanda_kwh, balance_Wh, E_max_Wh, E_min_Wh, DoD_pct,
                   SoC0_Wh, soc, soc_list, bateria_por_debajo_min,
                   dias_sin_bateria, rows>>

\* lines 102-105
IngestGen ==
    /\ pc = "ingest"
    /\ df_gen' \in Ingest(df_generacion)
    /\ bound' = bound \cup {"df_gen"}
    /\ pc' = "panel"
    /\ UNCHANGED <<st_error, df_generacion, consumo_total_kWh, panel_kw,
                   energia_kwh, eta_global, demanda_kwh, balance_Wh, E_max_Wh,
                   E_min_Wh, DoD_pct, SoC0_Wh, soc, soc_list,
                   bateria_por_debajo_min, dias_sin_bateria, rows>>

\* lines 114-121
PanelInput ==
    /\ pc = "panel"
    /\ \E p \in PanelInputs :
          /\ panel_kw' = p
          /\ energia_kwh' =
                [i \in 1..Len(df_gen) |-> df_gen[i].energia_1kw_kwh * p]
    /\ bound' = bound \cup {"panel_kw"}
    /\ pc' = "eta"
    /\ UNCHANGED <<st_error, df_generacion, consumo_total_kWh, df_gen,
                   eta_global, demanda_kwh, balance_Wh, E_max_Wh, E_min_Wh,
                   DoD_pct, SoC0_Wh, soc, soc_list, bateria_por_debajo_min,
                   dias_sin_bateria, rows>>

\* lines 137-160
Efficiency ==
    /\ pc = "eta"
    /\ \E eta_fv, eta_cableado, eta_mppt, eta_bat \in EtaInputs :
          eta_global' = eta_fv * eta_cableado * eta_mppt * eta_bat
    /\ bound' = bound \cup {"eta_global"}
    /\ pc' = "eta_check"
    /\ UNCHANGED <<st_error, df_generacion, consumo_total_kWh, df_gen,
                   panel_kw, energia_kwh, demanda_kwh, balance_Wh, E_max_Wh,
                   E_min_Wh, DoD_pct, SoC0_Wh, soc, soc_list,
                   bateria_por_debajo_min, dias_sin_bateria, rows>>

\* lines 174-176: st.error and st.stop
EtaStop ==
    /\ pc = "eta_check"
    /\ EtaNonPositive(eta_global)
    /\ st_error' = Append(st_error, "La eficiencia global es 0")
    /\ pc' = "stopped"
    /\ UNCHANGED <<bound, df_generacion, consumo_total_kWh, df_gen, panel_kw,
                   energia_kwh, eta_global, demanda_kwh, balance_Wh, E_max_Wh,
                   E_min_Wh, DoD_pct, SoC0_Wh, soc, soc_list,
                   bateria_por_debajo_min, dias_sin_bateria, rows>>

\* lines 174, 179-195
DemandaBalance ==
    /\ pc = "eta_check"
    /\ ~EtaNonPositive(eta_global)
    /\ demanda_kwh' = Demanda(consumo_total_kWh, eta_global)
    /\ balance_Wh' =
          [i \in 1..Len(energia_kwh) |-> BalanceWh(energia_kwh[i], demanda_kwh')]
    /\ bound' = bound \cup {"demanda_kwh", "balance_Wh"}
    /\ pc' = "battery"
    /\ UNCHANGED <<st_error, df_generacion, consumo_total_kWh, df_gen,
                   panel_kw, energia_kwh, eta_global, E_max_Wh, E_min_Wh,
                   DoD_pct, SoC0_Wh, soc, soc_list, bateria_por_debajo_min,
                   dias_sin_bateria, rows>>

\* lines 204-244
Battery(Vs, Cs, DoDs, Pcts) ==
    /\ pc = "battery"
    /\ \E V_bat \in Vs, C_bat_Ah \in Cs, d \in DoDs, soc_init_pct \in Pcts :
          /\ E_max_Wh' = V_bat * C_bat_Ah
          /\ E_min_Wh' = EMin(E_max_Wh', d)
          /\ DoD_pct' = d
          /\ SoC0_Wh' = SoC0(E_max_Wh', soc_init_pct)
    /\ soc_list' = <<>>
    /\ soc' = SoC0_Wh'
    /\ bound' = bound \cup {"E_max_Wh", "E_min_Wh", "DoD_pct", "SoC0_Wh",
                            "soc", "soc_list"}
    /\ pc' = "soc_loop"
    /\ UNCHANGED <<st_error, df_generacion, consumo_total_kWh, df_gen,
                   panel_kw, energia_kwh, eta_global, demanda_kwh, balance_Wh,
                   bateria_por_debajo_min, dias_sin_bateria, rows>>

\* lines 246-253: one iteration of the day-by-day loop
SocStep ==
    /\ pc = "soc_loop"
    /\ Len(soc_list) < Len(balance_Wh)
    /\ soc' = ClampSoc(soc + balance_Wh[Len(soc_list) + 1], E_max_Wh)
    /\ soc_list' = Append(soc_list, soc')
    /\ UNCHANGED <<pc, bound, st_error, df_generacion, consumo_total_kWh,
                   df_gen, panel_kw, energia_kwh, eta_global, demanda_kwh,
                   balance_Wh, E_max_Wh, E_min_Wh, DoD_pct, SoC0_Wh,
                   bateria_por_debajo_min, dias_sin_bateria, rows>>

\* lines 255-259, and line 395
SocDone ==
    /\ pc = "soc_loop"
    /\ Len(soc_list) = Len(balance_Wh)
    /\ bateria_por_debajo_min' =
          [i \in 1..Len(soc_list) |-> BelowMin(soc_list[i], E_min_Wh)]
    /\ dias_sin_bateria' = SumTrue(bateria_por_debajo_min')
    /\ rows' = <<>>
    /\ bound' = bound \cup {"bateria_por_debajo_min", "dias_sin_bateria", "rows"}
    /\ pc' = "sweep"
    /\ UNCHANGED <<st_error, df_generacion, consumo_total_kWh, df_gen,
                   panel_kw, energia_kwh, eta_global, demanda_kwh, balance_Wh,
                   E_max_Wh, E_min_Wh, DoD_pct, SoC0_Wh, soc, soc_list>>

\* lines 396-406: one cell of the nested loops
SweepCell ==
    /\ pc = "sweep"
    /\ Len(rows) < NCells
    /\ LET bat_Wh == CellBat(Len(rows))
           pv_kw  == CellPv(Len(rows))
       IN  rows' = Append(rows, [E_bateria_Wh   |-> bat_Wh,
                                 Potencia_label |-> etiquetas_pv[pv_kw],
                                 Dias_sin       |-> sim_dias_sin(pv_kw, bat_Wh)])
    /\ UNCHANGED <<pc, bound, st_error, df_generacion, consumo_total_kWh,
                   df_gen, panel_kw, energia_kwh, eta_global, demanda_kwh,
                   balance_Wh, E_max_Wh, E_min_Wh, DoD_pct, SoC0_Wh, soc,
                   soc_list, bateria_por_debajo_min, dias_sin_bateria>>

\* line 408 to the end of the script
SweepDone ==
    /\ pc = "sweep"
    /\ Len(rows) = NCells
    /\ bound' = bound \cup {"df_excel"}
    /\ pc' = "done"
    /\ UNCHANGED <<st_error, df_generacion, consumo_total_kWh, df_gen,
                   panel_kw, energia_kwh, eta_global, demanda_kwh, balance_Wh,
                   E_max_Wh, E_min_Wh, DoD_pct, SoC0_Wh, soc, soc_list,
                   bateria_por_debajo_min, dias_sin_bateria, rows>>

Run ==
    \/ IngestGen
    \/ PanelInput
    \/ Efficiency
    \/ EtaStop
    \/ DemandaBalance
    \/ SocStep
    \/ SocDone
    \/ SweepCell
    \/ SweepDone

\* well-formed files, every widget varied
Next ==
    \/ ReadExcel(CleanFiles)
    \/ Battery(VBatInputs, CBatInputs, DoDInputs, SocInitInputs)
    \/ Run

Spec == Init /\ [][Next]_vars

\* files with unparsable and repeated dates
NextIngest ==
    \/ ReadExcel(DirtyFiles)
    \/ Battery({12}, CBatInputs, {50}, SocInitInputs)
    \/ Run

SpecIngest == Init /\ [][NextIngest]_vars

\* four-day files and the 2000 Wh battery of the SoC scenario
NextScenario ==
    \/ ReadExcel(ScenarioFiles)
    \/ Battery({10}, {200}, {50, 80}, SocInitInputs)
    \/ Run

SpecScenario == Init /\ [][NextScenario]_vars

(***************************************************************************)
(* Properties.                                                             *)
(***************************************************************************)
Cells == 0 .. (NCells - 1)
\* the cell whose sim_dias_sin call has just returned, once one has
CellDone == Len(rows) > 0
Last == Len(rows) - 1
Days == 1 .. Len(df_gen)

\* SoC of the single scenario before day i
SocBefore(i) == IF i = 1 THEN SoC0_Wh ELSE soc_list[i - 1]

\* balance of day i in cell k, and the cell's SoC before day i
CellBalance(k, i) ==
    (df_gen[i].energia_1kw_kwh * CellPv(k) - demanda_kwh) * 100
CellTrace(k) == SimRun(CellPv(k), CellBat(k)).trace
CellBefore(k, i) == IF i = 1 THEN CellBat(k) ELSE CellTrace(k)[i - 1]
CellEMin(k) == (CellBat(k) * (100 - DoD_pct)) \div 100

LaterNames ==
    {"demanda_kwh", "balance_Wh", "E_max_Wh", "soc", "soc_list",
     "bateria_por_debajo_min", "dias_sin_bateria", "rows", "df_excel"}

\* C2: once eta_global is computed non-positive the run only shows the error
\* and stops: the demand, the SoC values, the day count and the sweep rows
\* are never assigned.
C2_EtaAbort ==
    ("eta_global" \in bound /\ eta_global <= 0) =>
        /\ pc \in {"eta_check", "stopped"}
        /\ bound \cap LaterNames = {}
        /\ soc_list = <<>> /\ rows = <<>> /\ balance_Wh = <<>>
        /\ pc = "stopped" => Len(st_error) = 1

C2_Witness ==
    /\ pc = "stopped"
    /\ eta_global = 0
    /\ Len(st_error) = 1
    /\ Len(df_gen) > 0

\* C3: a generation series with no usable sample never lets the run complete.
C3_EmptyInputFails ==
    ("df_gen" \in bound /\ df_gen = <<>>) => pc # "done"

\* C4: the day count equals the number of days whose clamped SoC is strictly
\* below the minimum, in the single scenario (where each flag is that
\* comparison too) and in each cell of the sweep as its row is appended.
C4_CountIsFlaggedDays ==
    /\ "dias_sin_bateria" \in bound =>
          /\ dias_sin_bateria =
                Cardinality({ i \in 1..Len(soc_list) : soc_list[i] < E_min_Wh })
          /\ Len(bateria_por_debajo_min) = Len(soc_list)
          /\ \A i \in 1..Len(soc_list) :
                bateria_por_debajo_min[i] <=> (soc_list[i] < E_min_Wh)
    /\ CellDone =>
          rows[Len(rows)].Dias_sin =
             Cardinality({ i \in Days : CellTrace(Last)[i] < CellEMin(Last) })

\* a run with a day exactly at the minimum (not counted) and a day below it
\* (counted), in the single scenario and in a cell
C4_Witness ==
    /\ pc = "done"
    /\ E_min_Wh > 0
    /\ \E i, j \in 1..Len(soc_list) :
          /\ soc_list[i] = E_min_Wh /\ ~bateria_por_debajo_min[i]
          /\ soc_list[j] < E_min_Wh /\ bateria_por_debajo_min[j]
    /\ dias_sin_bateria < Len(soc_list)
    /\ \E n \in 1..Len(rows) : \E i \in Days :
          /\ CellTrace(n - 1)[i] = CellEMin(n - 1)
          /\ rows[n].Dias_sin < Len(df_gen)

C6_NoDrift ==
    /\ ( /\ "soc_list" \in bound
         /\ SoC0_Wh = E_max_Wh
         /\ \A i \in 1..Len(balance_Wh) : balance_Wh[i] >= 0 )
       => /\ soc = E_max_Wh
          /\ \A i \in 1..Len(soc_list) : soc_list[i] = E_max_Wh
          /\ ("dias_sin_bateria" \in bound /\ DoD_pct > 0) =>
                /\ dias_sin_bateria = 0
                /\ \A i \in 1..Len(soc_list) : ~bateria_por_debajo_min[i]
    /\ (CellDone /\ \A i \in Days : CellBalance(Last, i) >= 0) =>
          /\ \A i \in Days : CellTrace(Last)[i] = CellBat(Last)
          /\ DoD_pct > 0 => rows[Len(rows)].Dias_sin = 0

\* a full start with a surplus on each of at least two days
C6_Witness ==
    /\ pc = "done"
    /\ DoD_pct > 0
    /\ SoC0_Wh = E_max_Wh
    /\ Len(soc_list) >= 2
    /\ \A i \in 1..Len(balance_Wh) : balance_Wh[i] > 0
    /\ \A i \in 1..Len(soc_list) : soc_list[i] = E_max_Wh
    /\ \E k \in Cells : \A i \in Days : CellBalance(k, i) > 0

ScenarioHolds ==
    /\ "dias_sin_bateria" \in bound
    /\ E_max_Wh = 2000 /\ DoD_pct = 80 /\ SoC0_Wh = 2000
    /\ Len(balance_Wh) = 4
    /\ \A i \in 1..4 : balance_Wh[i] = -500

\* C7: 2000 Wh, DoD 80 %, a full start and -500 Wh on each of four days give
\* the SoC 1500, 1000, 500, 0, only day 4 flagged, and a count of 1.
C7_SocScenario ==
    ScenarioHolds =>
        /\ soc_list = <<1500, 1000, 500, 0>>
        /\ bateria_por_debajo_min = <<FALSE, FALSE, FALSE, TRUE>>
        /\ dias_sin_bateria = 1

C7_Witness == ScenarioHolds /\ pc = "done"

\* the sweep as a function of the series, the demand, the DoD and the cell
\* alone: a full start, the daily balance, both cuts, the strict comparison
RECURSIVE RefCount(_, _, _, _, _, _)
RefCount(es, s, pv, cap, dem, dod) ==
    IF es = <<>> THEN 0
    ELSE LET t  == s + (es[1] * pv - dem) * 100
             s2 == IF t > cap THEN cap ELSE IF t < 0 THEN 0 ELSE t
         IN  (IF s2 * 100 < cap * (100 - dod) THEN 1 ELSE 0)
             + RefCount(Tail(es), s2, pv, cap, dem, dod)

Energias == [i \in 1..Len(df_gen) |-> df_gen[i].energia_1kw_kwh]

\* C8: every row appended to the table is its cell's capacity and label with
\* the count of a run that starts at 100 % of that capacity and reads only the
\* series, the demand, the DoD and the cell: not the initial SoC, voltage,
\* Ah or panel power of the single scenario, nor any other cell.
C8_SweepIndependent ==
    CellDone => LET n == Len(rows) IN
       /\ rows[n].E_bateria_Wh = lista_bat_Wh[((n - 1) \div 5) + 1]
       /\ rows[n].Potencia_label = etiquetas_pv[lista_pv_kw[((n - 1) % 5) + 1]]
       /\ rows[n].Dias_sin =
             RefCount(Energias, rows[n].E_bateria_Wh,
                      lista_pv_kw[((n - 1) % 5) + 1], rows[n].E_bateria_Wh,
                      demanda_kwh, DoD_pct)

\* a finished table with different counts in it, after a single scenario that
\* started below 100 %, ended empty, and shares no capacity or power with it
C8_Witness ==
    /\ pc = "done"
    /\ SoC0_Wh < E_max_Wh
    /\ soc # E_max_Wh
    /\ \A n \in 1..Len(rows) : rows[n].E_bateria_Wh # E_max_Wh
    /\ \A k \in Cells : CellPv(k) # panel_kw
    /\ \E m, n \in 1..Len(rows) :
          /\ rows[m].Dias_sin > rows[n].Dias_sin
          /\ rows[n].Dias_sin # dias_sin_bateria
          /\ rows[m].Dias_sin # dias_sin_bateria

\* C9: after ingestion no row has a missing date and the dates are strictly
\* increasing.
C9_StrictlyIncreasingDates ==
    "df_gen" \in bound =>
        /\ \A i \in 1..Len(df_gen) : df_gen[i].fecha # NaT
        /\ \A i \in 1..(Len(df_gen) - 1) : df_gen[i].fecha < df_gen[i + 1].fecha

\* C10: with no negative generation value, each cell as its row is appended
\* has, against every earlier cell of equal capacity and no larger power, on
\* every day at least that cell's SoC and at most its count.
C10_MonotoneInPower ==
    (CellDone /\ \A i \in Days : df_gen[i].energia_1kw_kwh >= 0) =>
        \A j \in 0..Last :
           (CellBat(j) = CellBat(Last) /\ CellPv(j) <= CellPv(Last)) =>
              /\ \A i \in Days : CellTrace(j)[i] <= CellTrace(Last)[i]
              /\ rows[Last + 1].Dias_sin <= rows[j + 1].Dias_sin

\* a finished table where the larger power has strictly fewer days
C10_Witness ==
    /\ pc = "done"
    /\ Len(df_gen) >= 2
    /\ \A i \in Days : df_gen[i].energia_1kw_kwh >= 0
    /\ \E m, n \in 1..Len(rows) :
          /\ rows[m].E_bateria_Wh = rows[n].E_bateria_Wh
          /\ CellPv(m - 1) < CellPv(n - 1)
          /\ rows[n].Dias_sin < rows[m].Dias_sin

====
